---- MODULE Spec2Model ----
(***************************************************************************)
(* State-machine model of two PiOS drivers:                                *)
(*   - the MS5611 barometer driver over SPI (pios_ms5611_spi.c): init,     *)
(*     device lock, conversion start / read, self-test and sampling task;  *)
(*   - the WS2811 LED strip driver (pios_ws2811.c): pixel store, DMA       *)
(*     buffer encoding and update trigger.                                 *)
(* The two drivers share no state; each has its own specification.         *)
(***************************************************************************)
EXTENDS Integers, Sequences, FiniteSets, TLC

(***************************************************************************)
(* Bounds of the model.                                                    *)
(***************************************************************************)
\* largest configured temperature_interleaving value explored
MaxInterleave == 3

\* largest strip length explored
MaxLeds == 13
\* number of times the DMA streams are programmed in one run
MaxCues == 2

(***************************************************************************)
(* MS5611 constants.                                                       *)
(***************************************************************************)
MS5611_RESET      == 30
MS5611_CALIB_ADDR == 162
MS5611_ADC_READ   == 0
MS5611_PRES_ADDR  == 64
MS5611_TEMP_ADDR  == 80
NumCalibration    == 6
QueueLength       == 1

PRESSURE_CONV    == "PRESSURE_CONV"
TEMPERATURE_CONV == "TEMPERATURE_CONV"

\* the two users of the device: the sampling thread and the caller of the
\* self-test
Procs == {"task", "test"}

(***************************************************************************)
(* Inputs.                                                                 *)
(***************************************************************************)
\* cfg->oversampling (enum values of the OSR settings used)
OsrValues == {8}
\* spi_id argument of init; 0 is the invalid handle
SpiIds == {0, 1}
\* factory PROM of the chip, words C1..C6
PromSets == { [i \in 0..5 |-> <<40127, 36924, 23317, 23282, 33464, 28312>>[i + 1]] }
\* ADC codes the chip may deliver for a temperature conversion (D2) and
\* for a pressure conversion (D1)
TempCodes == {8000000, 8569150}
PresCodes == {9085466}
\* ADC codes met over the whole range of the sensor.  With the PROM above
\* the temperature codes give, before / after compensation,
\*    7089678, 7089771     -2986 / -4001,  -2985 / -4000
\*    7646206, 7646503     -1107 / -1501,  -1106 / -1500
\*    8566488, 8566784      1999 /  1999,   2000 /  2000
\*    10492680, 10492976    8500 /  8500,   8501 /  8501
\* and, after the temperature code 8566784, the pressure codes give
\*    3864735          100
\*    3911719, 3911771 999, 1000
\*    4486663          12000
\*    9085466          99993
\*    10131052, 10131105  120000, 120001
SweepTempCodes == {7089678, 7089771, 7646206, 7646503, 8566488, 8566784,
                   10492680, 10492976}
SweepPresCodes == {3864735, 3911719, 3911771, 4486663, 9085466, 10131052,
                   10131105}
\* contents of the never-written stack buffer data[] after a failed read
UninitWords == {0, 65535}
\* outcome of one SPI transaction: bus claimed and transferred, bus claim
\* refused, block transfer failed
BusOutcomes == {"ok", "claim_fail", "xfer_fail"}
\* outcome of a command write: only the bus claim can fail
ClaimOutcomes == {"ok", "claim_fail"}

(***************************************************************************)
(* WS2811 constants and inputs.                                            *)
(***************************************************************************)
WS2811_DMA_BUFSIZE == 6 * 24 * 2

\* max_leds argument of init: a strip shorter than one buffer, one that
\* spills into the second buffer, one longer than both buffers
LedCounts == {1, 7, MaxLeds}
\* cfg->gpio_pin: a pin of the low and one of the high byte of the port
GpioPins == {4, 8192}
\* colours handed to set / set_all
Colors == { <<0, 0, 0>>, <<176, 255, 1>> }
\* a byte read from memory that is not pixel storage
GarbageBytes == {0, 255}
\* pixel_data_end after its upper bytes were overwritten: below or above
\* every address of the pixel store
CorruptEnds == {-1, 1000000}

VARIABLES
    \* ---- struct ms5611_dev and the file statics
    dev_ok,                     \* dev != NULL and dev->magic is set
    spi_id,
    cfg,                        \* [oversampling, temperature_interleaving]
    calibration,
    current_conversion_type,
    pressure_unscaled,
    temperature_unscaled,
    delta_temp,                 \* static in PIOS_MS5611_ReadADC
    temperature,                \* static in PIOS_MS5611_ReadADC
    busy,                       \* count of the binary semaphore dev->busy
    queue,                      \* dev->queue
    registered,                 \* PIOS_SENSORS_Register was called
    task_created,               \* dev->task != NULL
    \* ---- environment
    prom,                       \* PROM words of the chip
    ambient,                    \* conditions the chip measures
    bus_last_cmd,               \* last command byte clocked into the chip
    spi_bus,                    \* the SPI bus as this driver uses it
    \* ---- control state
    init_pc, init_rc, calib_i,
    pc, phase,
    temp_press_interleave_count,
    read_adc_result,
    test_rc,
    \* ---- history (not program state)
    hist,
    \* ---- struct ws2811_dev_s
    max_leds,
    gpio_bit,
    pixel_data,                 \* the pixel store as bytes r, g, b, r, ...
    dma_buf_0,
    dma_buf_1,
    cur_buf,
    eof,
    in_progress,
    pixel_data_pos,             \* byte offsets from the start of pixel_data
    pixel_data_end,
    \* ---- environment of the LED driver
    led_halted,                 \* a PIOS_Assert failed: the firmware stopped
    dma,                        \* the two DMA streams
    led_pc,                     \* where the caller is in trigger_update
    set_range,                  \* how far off the indices handed to set are
    led_hist                    \* history (not program state)

devvars == <<dev_ok, spi_id, cfg, calibration, registered, task_created, prom,
             ambient>>
convvars == <<current_conversion_type, pressure_unscaled,
              temperature_unscaled, delta_temp, temperature>>
initvars == <<init_pc, init_rc, calib_i>>
taskvars == <<temp_press_interleave_count, read_adc_result>>

barovars == <<devvars, convvars, initvars, taskvars, busy, queue,
              bus_last_cmd, spi_bus, pc, phase, test_rc, hist>>

ledvars == <<max_leds, gpio_bit, pixel_data, dma_buf_0, dma_buf_1, cur_buf,
             eof, in_progress, pixel_data_pos, pixel_data_end, led_halted,
             dma, led_pc, set_range, led_hist>>

vars == <<barovars, ledvars>>

(***************************************************************************)
(* Integer helpers.  The driver computes in int64_t; the checker's         *)
(* integers are narrower, so the 64-bit intermediates are kept as a pair   *)
(* [h, l] that stands for h * 2^30 + l with 0 <= l < 2^30.                 *)
(***************************************************************************)
Shl(x, n) == x * (2 ^ n)

\* the len bytes of v, most significant first, as the chip clocks them out
BytesOf(v, len) == [k \in 0..(len - 1) |-> (v \div (2 ^ (8 * (len - 1 - k)))) % 256]

WB == 2 ^ 30

WNorm(h, l) == [h |-> h + (l \div WB), l |-> l % WB]

WInt(x) == WNorm(0, x)

\* In the operators below each operand is bound to its value first, so that
\* it is computed once however often the body uses it.
WAdd(a, b) ==
    CHOOSE r \in {WNorm(x.h + y.h, x.l + y.l) : x \in {a}, y \in {b}} : TRUE

WSub(a, b) ==
    CHOOSE r \in {WNorm(x.h - y.h, x.l - y.l) : x \in {a}, y \in {b}} : TRUE

\* a >> n, arithmetic: rounds towards minus infinity
WShr(a, n) ==
    LET sh(w, k) == [h |-> w.h \div (2 ^ k),
                     l |-> (w.h % (2 ^ k)) * (2 ^ (30 - k)) + (w.l \div (2 ^ k))]
    IN  CHOOSE r \in {IF n <= 30 THEN sh(x, n) ELSE sh(WNorm(0, x.h), n - 30) :
                         x \in {a}} : TRUE

\* x * y for 0 <= x, y < 2^30, by 15-bit halves
WMulNat(x, y) ==
    LET x1 == x \div 32768
        x0 == x % 32768
        y1 == y \div 32768
        y0 == y % 32768
        mid == x1 * y0 + x0 * y1
    IN  WNorm(x1 * y1 + (mid \div 32768), (mid % 32768) * 32768 + x0 * y0)

\* x * y for integers of magnitude below 2^30
WMul(x, y) ==
    LET mul(u, v) ==
            LET au == IF u < 0 THEN -u ELSE u
                av == IF v < 0 THEN -v ELSE v
            IN  IF (u < 0) = (v < 0) THEN WMulNat(au, av)
                ELSE WSub(WNorm(0, 0), WMulNat(au, av))
    IN  CHOOSE r \in {mul(u, v) : u \in {x}, v \in {y}} : TRUE

\* x * w for an integer x and a wide w
WMulW(x, w) ==
    CHOOSE r \in {WAdd([h |-> u * v.h, l |-> 0], WMul(u, v.l)) :
                     u \in {x}, v \in {w}} : TRUE

\* the value of a wide that fits an integer
WToInt(w) == CHOOSE r \in {v.h * WB + v.l : v \in {w}} : TRUE

(***************************************************************************)
(* MS5611: helpers of the driver.                                          *)
(***************************************************************************)
PIOS_MS5611_Validate ==
    IF ~dev_ok THEN -1
    ELSE IF spi_id = 0 THEN -3
    ELSE 0

\* The bus as the driver uses it: held (claimed by this driver), cs (level
\* of the chip-select pin of the baro, 0 = selected), sel (the chip was
\* selected in the course of the latest Read or WriteCommand) and fault (the
\* driver has released the bus while it did not hold it).
BusIdle == [held |-> FALSE, cs |-> 1, sel |-> FALSE, fault |-> FALSE]

\* the bus at the entry of Read or WriteCommand
BusEntry == [spi_bus EXCEPT !.sel = FALSE]

\* PIOS_MS5611_ClaimBus; outcome tells whether PIOS_SPI_ClaimBus succeeds
PIOS_MS5611_ClaimBus(b, outcome) ==
    IF PIOS_MS5611_Validate # 0 THEN [rc |-> -1, bus |-> b]
    ELSE IF outcome = "claim_fail" THEN [rc |-> -2, bus |-> b]
    ELSE [rc |-> 0, bus |-> [b EXCEPT !.held = TRUE, !.cs = 0, !.sel = TRUE]]

PIOS_MS5611_ReleaseBus(b) ==
    IF PIOS_MS5611_Validate # 0 THEN [rc |-> -1, bus |-> b]
    ELSE [rc |-> 0,
          bus |-> [b EXCEPT !.held = FALSE, !.cs = 1,
                            !.fault = b.fault \/ ~b.held]]

\* variant: a transfer error returns at once, without the release at out:
Read_ReturnsOnError(address, len, outcome, chip) ==
    LET c == PIOS_MS5611_ClaimBus(BusEntry, outcome)
        r == PIOS_MS5611_ReleaseBus(c.bus)
    IN  IF PIOS_MS5611_Validate # 0
        THEN [rc |-> -1, data |-> <<>>, cmd |-> -1, xfers |-> 0, bytes |-> 0,
              bus |-> spi_bus]
        ELSE IF c.rc # 0
        THEN [rc |-> -2, data |-> <<>>, cmd |-> -1, xfers |-> 1, bytes |-> 0,
              bus |-> c.bus]
        ELSE IF outcome = "xfer_fail"
        THEN [rc |-> -3, data |-> <<>>, cmd |-> address, xfers |-> 1,
              bytes |-> 1, bus |-> c.bus]
        ELSE [rc |-> 0, data |-> chip, cmd |-> address, xfers |-> 1,
              bytes |-> 1 + len, bus |-> r.bus]

\* PIOS_MS5611_Read: one SPI transaction that reads len bytes; chip holds
\* the bytes the chip would deliver.  data = <<>> stands for a buffer that
\* was not written, bytes is the number of bytes clocked over the bus, bus
\* the state the bus is left in.
PIOS_MS5611_Read(address, len, outcome, chip) ==
    LET c == PIOS_MS5611_ClaimBus(BusEntry, outcome)
        r == PIOS_MS5611_ReleaseBus(c.bus)
    IN  IF PIOS_MS5611_Validate # 0
        THEN [rc |-> -1, data |-> <<>>, cmd |-> -1, xfers |-> 0, bytes |-> 0,
              bus |-> spi_bus]
        ELSE IF c.rc # 0
        THEN [rc |-> -2, data |-> <<>>, cmd |-> -1, xfers |-> 1, bytes |-> 0,
              bus |-> c.bus]
        ELSE IF outcome = "xfer_fail"
        THEN [rc |-> -3, data |-> <<>>, cmd |-> address, xfers |-> 1,
              bytes |-> 1, bus |-> r.bus]
        ELSE [rc |-> 0, data |-> chip, cmd |-> address, xfers |-> 1,
              bytes |-> 1 + len, bus |-> r.bus]

\* PIOS_MS5611_WriteCommand: one SPI transaction that writes a command
\* byte; cmd = -1: nothing sent
PIOS_MS5611_WriteCommand(command, outcome) ==
    LET c == PIOS_MS5611_ClaimBus(BusEntry, outcome)
        r == PIOS_MS5611_ReleaseBus(c.bus)
    IN  IF PIOS_MS5611_Validate # 0
        THEN [rc |-> -1, cmd |-> -1, bytes |-> 0, bus |-> spi_bus]
        ELSE IF c.rc # 0
        THEN [rc |-> -2, cmd |-> -1, bytes |-> 0, bus |-> c.bus]
        ELSE [rc |-> 0, cmd |-> command, bytes |-> 1, bus |-> r.bus]

\* command byte that starts a conversion of the given type
ConvCommand(type) ==
    IF type = TEMPERATURE_CONV THEN MS5611_TEMP_ADDR + cfg.oversampling
    ELSE MS5611_PRES_ADDR + cfg.oversampling

\* the test that guards the second-order compensation, on the temperature
\* before compensation
SecondOrder(temp) == temp < 2000

\* variant: the limit itself counts as very low
Tertiary_Inclusive(temp_unscaled) == temp_unscaled <= -1500

\* the test that guards the compensation for very low temperatures, on the
\* compensated temperature of the device
Tertiary(temp_unscaled) == temp_unscaled < -1500

\* temperature branch of ReadADC
TemperatureCalc(raw) ==
    LET dt   == raw - Shl(calibration[4], 8)
        temp == 2000 + WToInt(WShr(WMul(dt, calibration[5]), 23))
    IN  [delta_temp |-> dt,
         temperature |-> temp,
         temperature_unscaled |->
            IF SecondOrder(temp) THEN temp - WToInt(WShr(WMul(dt, dt), 31))
            ELSE temp,
         corr |-> IF SecondOrder(temp) THEN 1 ELSE 0]

\* the compensations the pressure branch of ReadADC applies: 0 none, 1 the
\* second-order one, 2 also the one for very low temperatures
PressureCorr ==
    IF ~SecondOrder(temperature) THEN 0
    ELSE IF Tertiary(temperature_unscaled) THEN 2
    ELSE 1

\* pressure branch of ReadADC
PressureCalc(raw) ==
    LET offset0 == WAdd(WMul(calibration[1], 2 ^ 16),
                        WShr(WMul(calibration[3], delta_temp), 7))
        sens0   == WAdd(WMul(calibration[0], 2 ^ 15),
                        WShr(WMul(calibration[2], delta_temp), 8))
        sq2000  == WMul(temperature - 2000, temperature - 2000)
        sq1500  == WMul(temperature + 1500, temperature + 1500)
        second  == PressureCorr >= 1
        third   == PressureCorr = 2
        offset1 == IF second THEN WSub(offset0, WShr(WMulW(5, sq2000), 1))
                   ELSE offset0
        sens1   == IF second THEN WSub(sens0, WShr(WMulW(5, sq2000), 2))
                   ELSE sens0
        offset  == IF third THEN WSub(offset1, WMulW(7, sq1500)) ELSE offset1
        sens    == IF third THEN WSub(sens1, WShr(WMulW(11, sq1500), 1))
                   ELSE sens1
    IN  WToInt(WShr(WSub(WShr(WMulW(raw, sens), 21), offset), 15))

\* the codes the ADC of the chip holds after the conversion command cmd:
\* at room conditions, at one steady temperature, or anywhere in the range
\* of the sweep
ChipCodes(cmd) ==
    IF cmd \in MS5611_TEMP_ADDR..(MS5611_TEMP_ADDR + 8)
    THEN IF ambient = "sweep" THEN SweepTempCodes
         ELSE IF ambient = "steady" THEN {CHOOSE c \in TempCodes : TRUE}
         ELSE TempCodes
    ELSE IF cmd \in MS5611_PRES_ADDR..(MS5611_PRES_ADDR + 8)
    THEN IF ambient = "sweep" THEN SweepPresCodes ELSE PresCodes
    ELSE {0}

\* variant: the result of Read is not looked at and the code is built from
\* the unwritten buffer
ReadADC_IgnoreReadError(outcome, raw) ==
    LET r == PIOS_MS5611_Read(MS5611_ADC_READ, 3, outcome, BytesOf(raw, 3))
        code == IF r.rc = 0
                THEN Shl(r.data[0], 16) + Shl(r.data[1], 8) + r.data[2]
                ELSE 0
        t == TemperatureCalc(code)
    IN  IF current_conversion_type = TEMPERATURE_CONV
        THEN [rc |-> 0, xfers |-> r.xfers, bytes |-> r.bytes, bus |-> r.bus,
              corr |-> t.corr, delta_temp |-> t.delta_temp,
              temperature |-> t.temperature,
              temperature_unscaled |-> t.temperature_unscaled,
              pressure_unscaled |-> pressure_unscaled]
        ELSE [rc |-> 0, xfers |-> r.xfers, bytes |-> r.bytes, bus |-> r.bus,
              corr |-> PressureCorr, delta_temp |-> delta_temp,
              temperature |-> temperature,
              temperature_unscaled |-> temperature_unscaled,
              pressure_unscaled |-> PressureCalc(code)]

\* PIOS_MS5611_ReadADC as a function of the bus outcome and the ADC code:
\* the return code, the new values of the fields it may assign, what it did
\* on the bus and the compensations it applied (corr, -1: none computed)
PIOS_MS5611_ReadADC(outcome, raw) ==
    LET old == [rc |-> -1, xfers |-> 0, bytes |-> 0, bus |-> spi_bus,
                corr |-> -1,
                delta_temp |-> delta_temp, temperature |-> temperature,
                temperature_unscaled |-> temperature_unscaled,
                pressure_unscaled |-> pressure_unscaled]
        r == PIOS_MS5611_Read(MS5611_ADC_READ, 3, outcome, BytesOf(raw, 3))
        code == Shl(r.data[0], 16) + Shl(r.data[1], 8) + r.data[2]
        done == [old EXCEPT !.xfers = r.xfers, !.bytes = r.bytes,
                            !.bus = r.bus]
    IN  IF PIOS_MS5611_Validate # 0 THEN old
        ELSE IF r.rc # 0 THEN done
        ELSE IF current_conversion_type = TEMPERATURE_CONV
             THEN LET t == TemperatureCalc(code)
                  IN  [done EXCEPT !.rc = 0, !.corr = t.corr,
                                   !.delta_temp = t.delta_temp,
                                   !.temperature = t.temperature,
                                   !.temperature_unscaled = t.temperature_unscaled]
             ELSE [done EXCEPT !.rc = 0, !.corr = PressureCorr,
                               !.pressure_unscaled = PressureCalc(code)]

(***************************************************************************)
(* MS5611: initial state.  Nothing is allocated; the statics of ReadADC    *)
(* are zero.                                                               *)
(***************************************************************************)
\* History kept beside the program state:
\*   init_fault, calib_fault   init failed to allocate or to reset the
\*                             chip; a calibration read failed
\*   task_first                type of the first conversion the task started
\*   pres_since_temp           pressure conversions the task started since
\*                             its last temperature conversion
\*   last_gap                  value of pres_since_temp when the task started
\*                             its latest temperature conversion but the
\*                             first (-1 before that)
\*   last_send                 what the latest pass of the task did with its
\*                             sample (kept until the next pass begins)
\*   pres_read_ok              the bus read of the task's latest pressure
\*                             ReadADC succeeded
\*   retried[p], start_rc[p]   the StartADC call of p had a failed write;
\*                             its return code (kept until ReadADC)
\*   adc[p]                    return code, bus outcome and number of bus
\*                             transactions of the ReadADC call of p (kept
\*                             until ReleaseDevice), and the
\*                             compensations it applied
\*   xfer                      outcome and number of bytes of the latest
\*                             bus transaction and the return code of the
\*                             call that made it (kept until the next step
\*                             of the conversion sequence)
\*   temp_src                  who ran the latest temperature ReadADC whose
\*                             bus read succeeded, and the delta_temp and
\*                             temperature it stored
\*   iter                      conversions the task started in this pass
\*   test_seq                  conversions the running self-test started
NoAdc == [rc |-> 0, outcome |-> "none", xfers |-> 0, corr |-> -1]

NoXfer == [last |-> "none", bytes |-> 0, rc |-> 0]

\* the history entry of a call r whose bus transaction had outcome o; a
\* call on an invalid device does not get to the bus
Xfer(o, r) ==
    [last |-> IF PIOS_MS5611_Validate # 0 THEN "invalid" ELSE o,
     bytes |-> r.bytes, rc |-> r.rc]

HistInit ==
    [init_fault |-> "none", calib_fault |-> FALSE,
     task_first |-> "none", pres_since_temp |-> 0, last_gap |-> -1,
     last_send |-> "none", pres_read_ok |-> FALSE,
     retried |-> [p \in Procs |-> FALSE],
     start_rc |-> [p \in Procs |-> 0],
     adc |-> [p \in Procs |-> NoAdc],
     xfer |-> NoXfer,
     temp_src |-> [by |-> "none", dt |-> 0, temp |-> 0],
     iter |-> <<>>, test_seq |-> <<>>]

\* the LED driver is not part of the barometer specifications
LedAbsent ==
    /\ max_leds = 0
    /\ gpio_bit = 0
    /\ pixel_data = <<>>
    /\ dma_buf_0 = <<>>
    /\ dma_buf_1 = <<>>
    /\ cur_buf = FALSE
    /\ eof = FALSE
    /\ in_progress = FALSE
    /\ pixel_data_pos = 0
    /\ pixel_data_end = 0
    /\ led_halted = FALSE
    /\ dma = [enabled |-> FALSE, side |-> 0, cues |-> 0]
    /\ led_pc = "idle"
    /\ set_range = "edges"
    /\ led_hist = [call |-> "none", idx |-> 0, tick |-> FALSE,
                   oob_write |-> FALSE, fills |-> <<>>]

BaroInit ==
    /\ dev_ok = FALSE
    /\ spi_id = 0
    /\ cfg \in [oversampling : OsrValues,
                temperature_interleaving : 0..MaxInterleave]
    /\ calibration = [i \in 0..(NumCalibration - 1) |-> 0]
    /\ current_conversion_type = PRESSURE_CONV
    /\ pressure_unscaled = 0
    /\ temperature_unscaled = 0
    /\ delta_temp = 0
    /\ temperature = 0
    /\ busy = 0
    /\ queue = <<>>
    /\ registered = FALSE
    /\ task_created = FALSE
    /\ prom \in PromSets
    /\ ambient = "room"
    /\ bus_last_cmd = -1
    /\ spi_bus = BusIdle
    /\ init_pc = "alloc"
    /\ init_rc = 0
    /\ calib_i = 0
    /\ pc = [p \in Procs |-> "idle"]
    /\ phase = [p \in Procs |-> TEMPERATURE_CONV]
    /\ temp_press_interleave_count = 1
    /\ read_adc_result = 0
    /\ test_rc = 0
    /\ hist = HistInit
    /\ LedAbsent

(***************************************************************************)
(* PIOS_MS5611_SPI_Init, one action per bus transaction.                   *)
(***************************************************************************)
\* PIOS_MS5611_alloc and the assignments of spi_id, slave_num and cfg
InitAlloc ==
    /\ init_pc = "alloc"
    /\ \E ok \in BOOLEAN, id \in SpiIds :
          IF ok
          THEN /\ dev_ok' = TRUE
               /\ spi_id' = id
               /\ busy' = 1
               /\ init_pc' = "reset"
               /\ UNCHANGED <<init_rc, hist>>
          ELSE /\ init_rc' = -1
               /\ init_pc' = "done"
               /\ hist' = [hist EXCEPT !.init_fault = "alloc"]
               /\ UNCHANGED <<dev_ok, spi_id, busy>>
    /\ UNCHANGED <<ledvars, cfg, calibration, registered, task_created, prom, ambient, convvars,
                   calib_i, taskvars, queue, bus_last_cmd, spi_bus, pc, phase, test_rc>>

\* WriteCommand(MS5611_RESET) and the 20 ms settle delay
InitReset ==
    /\ init_pc = "reset"
    /\ \E o \in ClaimOutcomes :
          LET w == PIOS_MS5611_WriteCommand(MS5611_RESET, o)
          IN  IF w.rc # 0
              THEN /\ init_rc' = -2
                   /\ init_pc' = "done"
                   /\ spi_bus' = w.bus
                   /\ hist' = [hist EXCEPT !.init_fault = "reset",
                                           !.xfer = Xfer(o, w)]
                   /\ UNCHANGED <<bus_last_cmd, calib_i>>
              ELSE /\ bus_last_cmd' = w.cmd
                   /\ spi_bus' = w.bus
                   /\ init_pc' = "calib"
                   /\ calib_i' = 0
                   /\ hist' = [hist EXCEPT !.xfer = Xfer(o, w)]
                   /\ UNCHANGED init_rc
    /\ UNCHANGED <<ledvars, devvars, convvars, taskvars, busy, queue, pc, phase, test_rc>>

\* one iteration of the calibration loop; the result of Read is not looked
\* at, so after a failed read the word is built from the unwritten buffer
InitCalib ==
    /\ init_pc = "calib"
    /\ calib_i < NumCalibration
    /\ \E o \in BusOutcomes, u \in UninitWords :
          LET r == PIOS_MS5611_Read(MS5611_CALIB_ADDR + calib_i * 2, 2, o,
                                    BytesOf(prom[calib_i], 2))
              data == IF r.rc = 0 THEN r.data ELSE BytesOf(u, 2)
          IN  /\ (r.rc = 0) => u = 0
              /\ calibration' = [calibration EXCEPT
                                    ![calib_i] = Shl(data[0], 8) + data[1]]
              /\ bus_last_cmd' = IF r.cmd # -1 THEN r.cmd ELSE bus_last_cmd
              /\ spi_bus' = r.bus
              /\ hist' = [hist EXCEPT
                            !.calib_fault = @ \/ r.rc # 0,
                            !.xfer = Xfer(o, r)]
    /\ calib_i' = calib_i + 1
    /\ init_pc' = IF calib_i + 1 < NumCalibration THEN "calib" ELSE "register"
    /\ UNCHANGED <<ledvars, dev_ok, spi_id, cfg, registered, task_created, prom, ambient,
                   convvars, init_rc, taskvars, busy, queue, pc, phase, test_rc>>

\* PIOS_SENSORS_Register, PIOS_Thread_Create and return 0
InitRegister ==
    /\ init_pc = "register"
    /\ registered' = TRUE
    /\ task_created' = TRUE
    /\ pc' = [pc EXCEPT !["task"] = "loop"]
    /\ init_rc' = 0
    /\ init_pc' = "done"
    /\ UNCHANGED <<ledvars, dev_ok, spi_id, cfg, calibration, prom, ambient, convvars, calib_i,
                   taskvars, busy, queue, bus_last_cmd, spi_bus, phase, test_rc, hist>>

(***************************************************************************)
(* The conversion sequence shared by the self-test and the sampling task:  *)
(* ClaimDevice, StartADC, delay, ReadADC, ReleaseDevice.  phase[p] is the  *)
(* conversion type process p is working on.                                *)
(***************************************************************************)
\* PIOS_Semaphore_Take(dev->busy, PIOS_SEMAPHORE_TIMEOUT_MAX): waits until
\* the semaphore is available
PIOS_Semaphore_Take == busy = 1 /\ busy' = 0

\* PIOS_Semaphore_Give(dev->busy)
PIOS_Semaphore_Give == busy' = 1

\* variant: the take gives up at once and its result is not looked at
ClaimDevice_NoWait(p) ==
    /\ pc[p] = "claim"
    /\ busy' = 0
    /\ pc' = [pc EXCEPT ![p] = "start"]
    /\ UNCHANGED <<ledvars, devvars, convvars, initvars, taskvars, queue,
                   bus_last_cmd, spi_bus, phase, test_rc, hist>>

PIOS_MS5611_ClaimDevice(p) ==
    /\ pc[p] = "claim"
    /\ PIOS_Semaphore_Take
    /\ pc' = [pc EXCEPT ![p] = "start"]
    /\ UNCHANGED <<ledvars, devvars, convvars, initvars, taskvars, queue,
                   bus_last_cmd, spi_bus, phase, test_rc, hist>>

\* history of the conversions started by the sampling task
NoteConversion(h, p, type) ==
    IF p # "task" THEN [h EXCEPT !.test_seq = Append(@, type)]
    ELSE IF type = TEMPERATURE_CONV
         THEN [h EXCEPT !.task_first = IF @ = "none" THEN "T" ELSE @,
                        !.pres_since_temp = 0,
                        !.last_gap = IF h.task_first = "none" THEN @
                                     ELSE h.pres_since_temp,
                        !.iter = Append(@, type)]
         ELSE [h EXCEPT !.task_first = IF @ = "none" THEN "P" ELSE @,
                        !.pres_since_temp = @ + 1,
                        !.iter = Append(@, type)]

\* variant: a failed write of the command is returned to the caller
StartADC_OneShot(p, type, o) ==
    LET w == PIOS_MS5611_WriteCommand(ConvCommand(type), o)
    IN  IF PIOS_MS5611_Validate # 0 \/ w.rc # 0
        THEN /\ pc' = [pc EXCEPT ![p] = "sleep"]
             /\ spi_bus' = w.bus
             /\ hist' = [hist EXCEPT !.start_rc[p] = -1, !.retried[p] = TRUE,
                                     !.xfer = Xfer(o, w)]
             /\ UNCHANGED <<bus_last_cmd, current_conversion_type>>
        ELSE /\ bus_last_cmd' = w.cmd
             /\ spi_bus' = w.bus
             /\ current_conversion_type' = type
             /\ pc' = [pc EXCEPT ![p] = "sleep"]
             /\ hist' = [NoteConversion(hist, p, type) EXCEPT
                            !.start_rc[p] = 0,
                            !.xfer = Xfer(o, w)]

\* one pass of the retry loop of PIOS_MS5611_StartADC: a failed write of the
\* command is tried again, a successful one records the type and returns 0
PIOS_MS5611_StartADC(p, type, o) ==
    LET w == PIOS_MS5611_WriteCommand(ConvCommand(type), o)
    IN  IF PIOS_MS5611_Validate # 0
        THEN /\ pc' = [pc EXCEPT ![p] = "sleep"]
             /\ hist' = [hist EXCEPT !.start_rc[p] = -1]
             /\ UNCHANGED <<bus_last_cmd, spi_bus, current_conversion_type>>
        ELSE IF w.rc # 0
        THEN /\ spi_bus' = w.bus
             /\ hist' = [hist EXCEPT !.retried[p] = TRUE,
                                     !.xfer = Xfer(o, w)]
             /\ UNCHANGED <<pc, bus_last_cmd, current_conversion_type>>
        ELSE /\ bus_last_cmd' = w.cmd
             /\ spi_bus' = w.bus
             /\ current_conversion_type' = type
             /\ pc' = [pc EXCEPT ![p] = "sleep"]
             /\ hist' = [NoteConversion(hist, p, type) EXCEPT
                            !.start_rc[p] = 0,
                            !.xfer = Xfer(o, w)]

StartADC(p) ==
    /\ pc[p] = "start"
    /\ (p = "task" /\ phase[p] = PRESSURE_CONV)
          => hist.pres_since_temp <= MaxInterleave
    /\ \E o \in ClaimOutcomes : PIOS_MS5611_StartADC(p, phase[p], o)
    /\ UNCHANGED <<ledvars, devvars, pressure_unscaled, temperature_unscaled,
                   delta_temp, temperature, initvars, taskvars, busy, queue,
                   phase, test_rc>>

\* PIOS_DELAY_WaitmS / PIOS_Thread_Sleep for the conversion time
ConversionDelay(p) ==
    /\ pc[p] = "sleep"
    /\ pc' = [pc EXCEPT ![p] = "read"]
    /\ hist' = [hist EXCEPT !.xfer = NoXfer]
    /\ UNCHANGED <<ledvars, devvars, convvars, initvars, taskvars, busy, queue,
                   bus_last_cmd, spi_bus, phase, test_rc>>

ReadADC(p) ==
    /\ pc[p] = "read"
    /\ \E o \in BusOutcomes, raw \in ChipCodes(bus_last_cmd) :
          /\ (o # "ok") => raw = CHOOSE c \in ChipCodes(bus_last_cmd) : TRUE
          /\ \E r \in {PIOS_MS5611_ReadADC(o, raw)} :
              /\ delta_temp' = r.delta_temp
              /\ temperature' = r.temperature
              /\ temperature_unscaled' = r.temperature_unscaled
              /\ pressure_unscaled' = r.pressure_unscaled
              /\ bus_last_cmd' = IF o = "claim_fail" THEN bus_last_cmd
                                 ELSE MS5611_ADC_READ
              /\ spi_bus' = r.bus
              /\ read_adc_result' =
                    IF p = "task" /\ phase[p] = PRESSURE_CONV
                    THEN r.rc ELSE read_adc_result
              /\ hist' = [hist EXCEPT
                    !.adc[p] = [rc |-> r.rc, outcome |-> o, xfers |-> r.xfers,
                                corr |-> r.corr],
                    !.xfer = Xfer(o, r),
                    !.temp_src =
                        IF o = "ok" /\ current_conversion_type = TEMPERATURE_CONV
                        THEN [by |-> p, dt |-> r.delta_temp,
                              temp |-> r.temperature]
                        ELSE @,
                    !.retried[p] = FALSE,
                    !.start_rc[p] = 0,
                    !.pres_read_ok =
                        IF p = "task" /\ phase[p] = PRESSURE_CONV
                        THEN o = "ok" ELSE @]
    /\ pc' = [pc EXCEPT ![p] = "release"]
    /\ UNCHANGED <<ledvars, devvars, current_conversion_type, initvars,
                   temp_press_interleave_count, busy, queue, phase, test_rc>>

\* variant: the counter is reloaded with the configured value as it is
ReleaseDevice_NoMinimum(p) ==
    /\ pc[p] = "release"
    /\ PIOS_Semaphore_Give
    /\ IF phase[p] = TEMPERATURE_CONV
       THEN /\ phase' = [phase EXCEPT ![p] = PRESSURE_CONV]
            /\ pc' = [pc EXCEPT ![p] = "claim"]
            /\ temp_press_interleave_count' =
                  IF p # "task" THEN temp_press_interleave_count
                  ELSE cfg.temperature_interleaving
       ELSE /\ pc' = [pc EXCEPT ![p] = IF p = "task" THEN "send" ELSE "check"]
            /\ UNCHANGED <<phase, temp_press_interleave_count>>
    /\ hist' = [hist EXCEPT !.adc[p] = NoAdc, !.xfer = NoXfer]
    /\ UNCHANGED <<ledvars, devvars, convvars, initvars, read_adc_result, queue,
                   bus_last_cmd, spi_bus, test_rc>>

\* ReleaseDevice and what follows it up to the next ClaimDevice: the task
\* reloads its counter after a temperature cycle
PIOS_MS5611_ReleaseDevice(p) ==
    /\ pc[p] = "release"
    /\ PIOS_Semaphore_Give
    /\ IF phase[p] = TEMPERATURE_CONV
       THEN /\ phase' = [phase EXCEPT ![p] = PRESSURE_CONV]
            /\ pc' = [pc EXCEPT ![p] = "claim"]
            /\ temp_press_interleave_count' =
                  IF p # "task" THEN temp_press_interleave_count
                  ELSE IF cfg.temperature_interleaving = 0 THEN 1
                  ELSE cfg.temperature_interleaving
       ELSE /\ pc' = [pc EXCEPT ![p] = IF p = "task" THEN "send" ELSE "check"]
            /\ UNCHANGED <<phase, temp_press_interleave_count>>
    /\ hist' = [hist EXCEPT !.adc[p] = NoAdc, !.xfer = NoXfer]
    /\ UNCHANGED <<ledvars, devvars, convvars, initvars, read_adc_result, queue,
                   bus_last_cmd, spi_bus, test_rc>>

(***************************************************************************)
(* PIOS_MS5611_Task                                                        *)
(***************************************************************************)
\* variant: the counter is tested before it is decremented
TaskLoop_TestThenDecrement ==
    /\ pc["task"] = "loop"
    /\ temp_press_interleave_count' =
          IF temp_press_interleave_count = 0 THEN 2147483647
          ELSE temp_press_interleave_count - 1
    /\ phase' = [phase EXCEPT !["task"] =
                    IF temp_press_interleave_count = 0
                    THEN TEMPERATURE_CONV ELSE PRESSURE_CONV]
    /\ pc' = [pc EXCEPT !["task"] = "claim"]
    /\ hist' = [hist EXCEPT !.last_send = "none", !.iter = <<>>]
    /\ UNCHANGED <<ledvars, devvars, convvars, initvars, read_adc_result,
                   busy, queue, bus_last_cmd, spi_bus, test_rc>>

\* top of the loop: decrement of the counter and the test for zero.  The
\* counter is unsigned: decrementing 0 wraps to the largest value, for which
\* the largest integer of the checker stands.
TaskLoop ==
    /\ pc["task"] = "loop"
    /\ LET c == IF temp_press_interleave_count = 0 THEN 2147483647
                ELSE temp_press_interleave_count - 1
       IN  /\ temp_press_interleave_count' = c
           /\ phase' = [phase EXCEPT !["task"] =
                           IF c = 0 THEN TEMPERATURE_CONV ELSE PRESSURE_CONV]
    /\ pc' = [pc EXCEPT !["task"] = "claim"]
    /\ hist' = [hist EXCEPT !.last_send = "none", !.iter = <<>>]
    /\ UNCHANGED <<ledvars, devvars, convvars, initvars, read_adc_result, busy, queue,
                   bus_last_cmd, spi_bus, test_rc>>

\* the sample built from the two unscaled readings
BaroData == [temperature |-> temperature_unscaled,
             pressure |-> pressure_unscaled]

\* PIOS_Queue_Send(queue, data, 0): no wait, the item is dropped when full
PIOS_Queue_Send(q, data) == IF Len(q) < QueueLength THEN Append(q, data) ELSE q

\* variant: the sample is sent whatever the pressure read returned
TaskSend_Always ==
    /\ pc["task"] = "send"
    /\ queue' = PIOS_Queue_Send(queue, BaroData)
    /\ hist' = [hist EXCEPT !.last_send =
                   IF Len(queue) < QueueLength THEN "queued" ELSE "dropped"]
    /\ pc' = [pc EXCEPT !["task"] = "loop"]
    /\ UNCHANGED <<ledvars, devvars, convvars, initvars, taskvars, busy,
                   bus_last_cmd, spi_bus, phase, test_rc>>

\* variant: the send waits for room in the queue
TaskSend_Blocking ==
    /\ pc["task"] = "send"
    /\ IF read_adc_result = 0
       THEN /\ Len(queue) < QueueLength
            /\ queue' = Append(queue, BaroData)
            /\ hist' = [hist EXCEPT !.last_send = "queued"]
       ELSE /\ queue' = queue
            /\ hist' = [hist EXCEPT !.last_send = "skipped"]
    /\ pc' = [pc EXCEPT !["task"] = "loop"]
    /\ UNCHANGED <<ledvars, devvars, convvars, initvars, taskvars, busy,
                   bus_last_cmd, spi_bus, phase, test_rc>>

\* variant: the task ends when the pressure read failed
TaskSend_StopsOnFailure ==
    /\ pc["task"] = "send"
    /\ IF read_adc_result = 0
       THEN /\ queue' = PIOS_Queue_Send(queue, BaroData)
            /\ hist' = [hist EXCEPT !.last_send =
                           IF Len(queue) < QueueLength THEN "queued" ELSE "dropped"]
            /\ pc' = [pc EXCEPT !["task"] = "loop"]
       ELSE /\ queue' = queue
            /\ hist' = [hist EXCEPT !.last_send = "skipped"]
            /\ pc' = [pc EXCEPT !["task"] = "idle"]
    /\ UNCHANGED <<ledvars, devvars, convvars, initvars, taskvars, busy,
                   bus_last_cmd, spi_bus, phase, test_rc>>

\* bottom of the loop: the sample is sent if the pressure read returned 0
TaskSend ==
    /\ pc["task"] = "send"
    /\ IF read_adc_result = 0
       THEN /\ queue' = PIOS_Queue_Send(queue, BaroData)
            /\ hist' = [hist EXCEPT !.last_send =
                           IF Len(queue) < QueueLength THEN "queued" ELSE "dropped"]
       ELSE /\ queue' = queue
            /\ hist' = [hist EXCEPT !.last_send = "skipped"]
    /\ pc' = [pc EXCEPT !["task"] = "loop"]
    /\ UNCHANGED <<ledvars, devvars, convvars, initvars, taskvars, busy,
                   bus_last_cmd, spi_bus, phase, test_rc>>

\* a subscriber takes the sample out of the queue
QueueReceive ==
    /\ registered
    /\ queue # <<>>
    /\ queue' = Tail(queue)
    /\ UNCHANGED <<ledvars, devvars, convvars, initvars, taskvars, busy,
                   bus_last_cmd, spi_bus, pc, phase, test_rc, hist>>

(***************************************************************************)
(* PIOS_MS5611_SPI_Test                                                    *)
(***************************************************************************)
\* entry: an invalid device makes the call return -1 at once
TestCall ==
    /\ init_pc = "done"
    /\ pc["test"] = "idle"
    /\ IF PIOS_MS5611_Validate # 0
       THEN /\ test_rc' = -1
            /\ UNCHANGED <<pc, phase>>
       ELSE /\ pc' = [pc EXCEPT !["test"] = "claim"]
            /\ phase' = [phase EXCEPT !["test"] = TEMPERATURE_CONV]
            /\ UNCHANGED test_rc
    /\ hist' = [hist EXCEPT !.test_seq = <<>>]
    /\ UNCHANGED <<ledvars, devvars, convvars, initvars, taskvars, busy, queue,
                   bus_last_cmd, spi_bus>>

\* variant: the upper limit of the pressure is not checked
TestResult_NoUpperPressure ==
    IF \/ temperature_unscaled < -4000
       \/ temperature_unscaled > 8500
       \/ pressure_unscaled < 1000
    THEN -1 ELSE 0

\* the range check at the end of the self-test and its return value
TestResult ==
    IF \/ temperature_unscaled < -4000
       \/ temperature_unscaled > 8500
       \/ pressure_unscaled < 1000
       \/ pressure_unscaled > 120000
    THEN -1 ELSE 0

\* the self-test returns after its two cycles
TestCheck ==
    /\ pc["test"] = "check"
    /\ test_rc' = TestResult
    /\ pc' = [pc EXCEPT !["test"] = "idle"]
    /\ hist' = [hist EXCEPT !.test_seq = <<>>]
    /\ UNCHANGED <<ledvars, devvars, convvars, initvars, taskvars, busy, queue,
                   bus_last_cmd, spi_bus, phase>>

(***************************************************************************)
(* Specifications of the barometer driver.                                 *)
(*   SpecInit  PIOS_MS5611_SPI_Init from the unallocated state             *)
(*   Spec      the sampling task and the self-test, from the state a       *)
(*             successful init leaves                                      *)
(***************************************************************************)
InitNext ==
    \/ InitAlloc
    \/ InitReset
    \/ InitCalib
    \/ InitRegister

SpecInit == BaroInit /\ [][InitNext]_vars

\* the state after PIOS_MS5611_SPI_Init returned 0 with all reads good, the
\* chip being at the conditions amb
BaroStarted(amb) ==
    /\ dev_ok = TRUE
    /\ spi_id \in SpiIds \ {0}
    /\ cfg \in [oversampling : OsrValues,
                temperature_interleaving : 0..MaxInterleave]
    /\ prom \in PromSets
    /\ ambient = amb
    /\ calibration = prom
    /\ current_conversion_type = PRESSURE_CONV
    /\ pressure_unscaled = 0
    /\ temperature_unscaled = 0
    /\ delta_temp = 0
    /\ temperature = 0
    /\ busy = 1
    /\ queue = <<>>
    /\ registered = TRUE
    /\ task_created = TRUE
    /\ bus_last_cmd = MS5611_CALIB_ADDR + (NumCalibration - 1) * 2
    /\ spi_bus = BusIdle
    /\ init_pc = "done"
    /\ init_rc = 0
    /\ calib_i = NumCalibration
    /\ pc = [p \in Procs |-> IF p = "task" THEN "loop" ELSE "idle"]
    /\ phase = [p \in Procs |-> TEMPERATURE_CONV]
    /\ temp_press_interleave_count = 1
    /\ read_adc_result = 0
    /\ test_rc = 0
    /\ hist = HistInit
    /\ LedAbsent

BaroRunning == BaroStarted("room")

BaroNext ==
    \/ \E p \in Procs : PIOS_MS5611_ClaimDevice(p)
    \/ \E p \in Procs : StartADC(p)
    \/ \E p \in Procs : ConversionDelay(p)
    \/ \E p \in Procs : ReadADC(p)
    \/ \E p \in Procs : PIOS_MS5611_ReleaseDevice(p)
    \/ TaskLoop
    \/ TaskSend
    \/ QueueReceive
    \/ TestCall
    \/ TestCheck

Spec == BaroRunning /\ [][BaroNext]_vars

\* Scheduling.  The sampling thread keeps running: whenever it can take its
\* next step it eventually does (a write of the command that fails again
\* changes nothing, so its StartADC eventually gets a write through).  A
\* thread waiting for the device semaphore gets it when it is given.  The
\* self-test, once it has claimed the device, runs on to its release.
TaskStep ==
    \/ TaskLoop
    \/ StartADC("task")
    \/ ConversionDelay("task")
    \/ ReadADC("task")
    \/ PIOS_MS5611_ReleaseDevice("task")
    \/ TaskSend

TestHolding ==
    \/ StartADC("test")
    \/ ConversionDelay("test")
    \/ ReadADC("test")
    \/ PIOS_MS5611_ReleaseDevice("test")

\* The values measured play no part in the scheduling: the chip stays at one
\* temperature.
SteadyRunning == BaroStarted("steady")

FairSpec ==
    /\ SteadyRunning
    /\ [][BaroNext]_vars
    /\ WF_vars(TaskStep)
    /\ SF_vars(PIOS_MS5611_ClaimDevice("task"))
    /\ WF_vars(TestHolding)

\* The self-test called over and over while the chip goes through its whole
\* range and the sampling task has not been scheduled yet.
SweepRunning ==
    /\ BaroStarted("sweep")
    /\ cfg.temperature_interleaving = 1

TestNext ==
    \/ TestCall
    \/ PIOS_MS5611_ClaimDevice("test")
    \/ StartADC("test")
    \/ ConversionDelay("test")
    \/ ReadADC("test")
    \/ PIOS_MS5611_ReleaseDevice("test")
    \/ TestCheck

SpecTest == SweepRunning /\ [][TestNext]_vars

(***************************************************************************)
(* WS2811 LED strip driver.                                                *)
(***************************************************************************)
\* dev->gpio_bit for a pin mask: the mask moved into one byte
GpioBit(pin) == IF (pin \div 256) % 256 # 0 THEN pin \div 256 ELSE pin

\* the barometer driver is not part of the LED specifications
BaroAbsent ==
    /\ dev_ok = FALSE
    /\ spi_id = 0
    /\ cfg = [oversampling |-> 0, temperature_interleaving |-> 0]
    /\ calibration = <<>>
    /\ current_conversion_type = PRESSURE_CONV
    /\ pressure_unscaled = 0
    /\ temperature_unscaled = 0
    /\ delta_temp = 0
    /\ temperature = 0
    /\ busy = 0
    /\ queue = <<>>
    /\ registered = FALSE
    /\ task_created = FALSE
    /\ prom = <<>>
    /\ ambient = "room"
    /\ bus_last_cmd = -1
    /\ spi_bus = BusIdle
    /\ init_pc = "alloc"
    /\ init_rc = 0
    /\ calib_i = 0
    /\ pc = <<>>
    /\ phase = <<>>
    /\ temp_press_interleave_count = 1
    /\ read_adc_result = 0
    /\ test_rc = 0
    /\ hist = <<>>

\* The state PIOS_WS2811_init leaves when it returns 0.  The device comes
\* from PIOS_malloc and is not cleared: cur_buf, eof, in_progress and
\* pixel_data_pos are never assigned by init and hold whatever the memory
\* held.  The caller hands set indices of the given range.
LedStarted(range) ==
    /\ max_leds \in LedCounts
    /\ gpio_bit \in {GpioBit(pin) : pin \in GpioPins}
    /\ pixel_data = [k \in 0..(3 * max_leds - 1) |-> 0]
    /\ dma_buf_0 = [k \in 0..(WS2811_DMA_BUFSIZE - 1) |->
                       IF k % 2 = 0 THEN 0 ELSE gpio_bit]
    /\ dma_buf_1 = dma_buf_0
    /\ cur_buf \in BOOLEAN
    /\ eof \in BOOLEAN
    /\ in_progress \in BOOLEAN
    /\ pixel_data_pos \in {0, 3 * max_leds}
    /\ pixel_data_end = 3 * max_leds
    /\ led_halted = FALSE
    /\ dma = [enabled |-> FALSE, side |-> 0, cues |-> 0]
    /\ led_pc = "idle"
    /\ set_range = range
    /\ led_hist = [call |-> "none", idx |-> 0, tick |-> FALSE,
                   oob_write |-> FALSE, fills |-> <<>>]
    /\ BaroAbsent

LedInit == LedStarted("edges")

\* the byte at offset k from pixel_data; outside the pixel store the read
\* returns whatever lies there
SourceByte(k, garbage) ==
    IF k \in 0..(3 * max_leds - 1) THEN pixel_data[k] ELSE garbage

\* variant: the bits of a byte are taken least significant bit first
fill_dma_buf_LsbFirst(dma_buf, pos, end, gpio_val, garbage) ==
    LET passes == WS2811_DMA_BUFSIZE \div 16
        taken  == IF pos >= end THEN 0
                  ELSE IF end - pos < passes THEN end - pos
                  ELSE passes
        p_d_p  == pos + taken
    IN  [buf |-> [k \in DOMAIN dma_buf |->
                    IF k % 2 = 0 /\ k \div 16 < taken
                    THEN LET p == SourceByte(pos + k \div 16, garbage)
                             j == (k % 16) \div 2
                         IN  IF (p \div (2 ^ j)) % 2 = 0 THEN gpio_val ELSE 0
                    ELSE dma_buf[k]],
         pos |-> p_d_p,
         ret |-> p_d_p >= end]

\* variant: the early-fall value is written for a one bit
fill_dma_buf_Inverted(dma_buf, pos, end, gpio_val, garbage) ==
    LET passes == WS2811_DMA_BUFSIZE \div 16
        taken  == IF pos >= end THEN 0
                  ELSE IF end - pos < passes THEN end - pos
                  ELSE passes
        p_d_p  == pos + taken
    IN  [buf |-> [k \in DOMAIN dma_buf |->
                    IF k % 2 = 0 /\ k \div 16 < taken
                    THEN LET p == SourceByte(pos + k \div 16, garbage)
                             j == (k % 16) \div 2
                         IN  IF (p * (2 ^ j)) % 256 < 128 THEN 0 ELSE gpio_val
                    ELSE dma_buf[k]],
         pos |-> p_d_p,
         ret |-> p_d_p >= end]

\* fill_dma_buf.  Pass n of the outer loop (n = i / 16) runs if the cursor
\* has not reached the end; it takes the byte at pos + n and writes the
\* even offsets 16n, 16n+2, ..., 16n+14: pass j of the inner loop looks at
\* the top bit of the byte after j shifts to the left.  The result is the
\* new buffer, the new cursor and the return value.
fill_dma_buf(dma_buf, pos, end, gpio_val, garbage) ==
    LET passes == WS2811_DMA_BUFSIZE \div 16
        taken  == IF pos >= end THEN 0
                  ELSE IF end - pos < passes THEN end - pos
                  ELSE passes
        p_d_p  == pos + taken
    IN  [buf |-> [k \in DOMAIN dma_buf |->
                    IF k % 2 = 0 /\ k \div 16 < taken
                    THEN LET p == SourceByte(pos + k \div 16, garbage)
                             j == (k % 16) \div 2
                         IN  IF (p * (2 ^ j)) % 256 < 128 THEN gpio_val ELSE 0
                    ELSE dma_buf[k]],
         pos |-> p_d_p,
         ret |-> p_d_p >= end]

\* ws2811_cue_dma: both streams are reset, set up and enabled; the
\* double-buffered stream starts at memory 0 (dma_buf_0)
ws2811_cue_dma(d) == [enabled |-> TRUE, side |-> 0, cues |-> d.cues + 1]

\* every call of the API is recorded: which call, its index argument, and a
\* bit that flips per call
NoteCall(h, name, idx) == [h EXCEPT !.call = name, !.idx = idx, !.tick = ~@]

\* variant: a call during an update rewinds the cursor
TriggerUpdate_RewindsCursor ==
    /\ ~led_halted
    /\ led_pc = "idle"
    /\ in_progress
    /\ pixel_data_pos' = 0
    /\ led_hist' = NoteCall(led_hist, "trigger_noop", 0)
    /\ UNCHANGED <<barovars, set_range, max_leds, gpio_bit, pixel_data, pixel_data_end,
                   led_halted, dma_buf_0, dma_buf_1, cur_buf, eof,
                   in_progress, dma, led_pc>>

\* variant: a call during an update encodes the two buffers again
TriggerUpdate_NoGuard ==
    /\ ~led_halted
    /\ led_pc = "idle"
    /\ LET f0 == fill_dma_buf(dma_buf_0, 0, pixel_data_end, gpio_bit, 0)
           f1 == fill_dma_buf(dma_buf_1, f0.pos, pixel_data_end, gpio_bit, 0)
       IN  /\ dma_buf_0' = f0.buf
           /\ dma_buf_1' = f1.buf
           /\ pixel_data_pos' = f1.pos
    /\ in_progress' = TRUE
    /\ eof' = FALSE
    /\ cur_buf' = FALSE
    /\ dma' = [dma EXCEPT !.enabled = TRUE]
    /\ led_hist' = NoteCall(led_hist, IF in_progress THEN "trigger_noop"
                                      ELSE "trigger", 0)
    /\ UNCHANGED <<barovars, set_range, max_leds, gpio_bit, pixel_data, pixel_data_end,
                   led_halted, led_pc>>

\* variant: the streams are programmed and started as soon as the update
\* is marked, before the buffers are encoded
TriggerUpdate_CueFirst ==
    /\ ~led_halted
    /\ led_pc = "idle"
    /\ IF in_progress
       THEN /\ led_hist' = NoteCall(led_hist, "trigger_noop", 0)
            /\ UNCHANGED <<cur_buf, eof, in_progress, pixel_data_pos, led_pc,
                           dma>>
       ELSE /\ dma.cues < MaxCues
            /\ in_progress' = TRUE
            /\ eof' = FALSE
            /\ pixel_data_pos' = 0
            /\ cur_buf' = FALSE
            /\ dma' = ws2811_cue_dma(dma)
            /\ led_pc' = "fill0"
            /\ led_hist' = [NoteCall(led_hist, "trigger", 0) EXCEPT
                              !.fills = <<>>]
    /\ UNCHANGED <<barovars, set_range, max_leds, gpio_bit, pixel_data, pixel_data_end,
                   led_halted, dma_buf_0, dma_buf_1>>

\* PIOS_WS2811_trigger_update, from the call to the first fill: the guard,
\* then in_progress, eof, the cursor and cur_buf are set.  The call returns
\* at once when an update is in progress.
PIOS_WS2811_trigger_update ==
    /\ ~led_halted
    /\ led_pc = "idle"
    /\ IF in_progress
       THEN /\ led_hist' = NoteCall(led_hist, "trigger_noop", 0)
            /\ UNCHANGED <<cur_buf, eof, in_progress, pixel_data_pos, led_pc>>
       ELSE /\ dma.cues < MaxCues
            /\ in_progress' = TRUE
            /\ eof' = FALSE
            /\ pixel_data_pos' = 0
            /\ cur_buf' = FALSE
            /\ led_pc' = "fill0"
            /\ led_hist' = [NoteCall(led_hist, "trigger", 0) EXCEPT
                              !.fills = <<>>]
    /\ UNCHANGED <<barovars, set_range, max_leds, gpio_bit, pixel_data, pixel_data_end,
                   led_halted, dma_buf_0, dma_buf_1, dma>>

\* the two calls of fill_dma_buf in trigger_update: buffer n is encoded
\* from the cursor, which is left where the fill stopped; the return value
\* is dropped.  Each fill is recorded: the buffer, the cursor before and
\* after, the return value and the byte read beyond the pixel store, if
\* any.
TriggerFill(n) ==
    /\ led_pc = (IF n = 0 THEN "fill0" ELSE "fill1")
    /\ \E g \in IF pixel_data_end > 3 * max_leds THEN GarbageBytes ELSE {0} :
          LET f == fill_dma_buf(IF n = 0 THEN dma_buf_0 ELSE dma_buf_1,
                                pixel_data_pos, pixel_data_end, gpio_bit, g)
          IN  /\ dma_buf_0' = (IF n = 0 THEN f.buf ELSE dma_buf_0)
              /\ dma_buf_1' = (IF n = 1 THEN f.buf ELSE dma_buf_1)
              /\ pixel_data_pos' = f.pos
              /\ led_hist' = [led_hist EXCEPT !.fills =
                     Append(@, [buf |-> n, from |-> pixel_data_pos,
                                to |-> f.pos, ret |-> f.ret,
                                garbage |-> g])]
    /\ led_pc' = (IF n = 0 THEN "fill1" ELSE "cue")
    /\ UNCHANGED <<barovars, set_range, max_leds, gpio_bit, pixel_data, pixel_data_end,
                   led_halted, cur_buf, eof, in_progress, dma>>

\* the end of trigger_update: the DMA streams are programmed and enabled
TriggerCue ==
    /\ led_pc = "cue"
    /\ dma' = ws2811_cue_dma(dma)
    /\ led_pc' = "idle"
    /\ UNCHANGED <<barovars, set_range, max_leds, gpio_bit, pixel_data, pixel_data_end,
                   led_halted, dma_buf_0, dma_buf_1, cur_buf, eof,
                   in_progress, pixel_data_pos, led_hist>>

\* variant: the assertion admits idx = max_leds
SetEffect_OffByOne(idx) ==
    IF ~(idx <= max_leds) THEN "assert"
    ELSE IF idx >= 0 THEN "store"
    ELSE "before"

\* PIOS_WS2811_set as a function of the index: what it does to the device
\*   "assert"  PIOS_Assert(idx < max_leds) fails
\*   "store"   the triple is stored inside the pixel store
\*   "before"  the triple is stored in front of the pixel store (idx is a
\*             signed int, so a negative idx passes the assertion)
SetEffect(idx) ==
    IF ~(idx < max_leds) THEN "assert"
    ELSE IF idx >= 0 THEN "store"
    ELSE "before"

\* the pixel store after pixel_data[idx] = {r, g, b}
StorePixel(pd, idx, c) ==
    [pd EXCEPT ![3 * idx] = c[1], ![3 * idx + 1] = c[2], ![3 * idx + 2] = c[3]]

\* indices handed to set: the two ends of the strip and the first index
\* beyond each end; a caller far off also hands the first negative index
\* whose triple falls into dma_buf_1
SetIndexes ==
    {-1, 0, max_leds - 1, max_leds}
        \cup (IF set_range = "far" THEN {-8} ELSE {})

\* byte offsets of the members of struct ws2811_dev_s as the 32-bit target
\* lays them out: magic 0, cfg 4, max_leds 8, lame_dma_buf 10, the two
\* buffers, one byte of padding, the two register addresses 588 and 592,
\* then the members below; pixel_data[] is the end of the struct
OffsetOf ==
    [dma_buf_0 |-> 11, dma_buf_1 |-> 11 + WS2811_DMA_BUFSIZE,
     gpio_bit |-> 596, cur_buf |-> 597, eof |-> 598, in_progress |-> 599,
     pixel_data_pos |-> 600, pixel_data_end |-> 604, pixel_data |-> 608]

\* the struct offsets of the three bytes of pixel_data[idx]
TripleAt(idx) ==
    (OffsetOf.pixel_data + 3 * idx)..(OffsetOf.pixel_data + 3 * idx + 2)

\* the store of pixel_data[idx] writes some byte of the member at offset
\* off, size bytes long
Hits(idx, off, size) == TripleAt(idx) \cap (off..(off + size - 1)) # {}

\* the byte the store of c at pixel_data[idx] leaves at the struct offset b
ByteAt(idx, c, b) == c[b - (OffsetOf.pixel_data + 3 * idx) + 1]

\* a one-byte member at offset off holding old, after the store
ByteAfter(idx, c, off, old) ==
    IF Hits(idx, off, 1) THEN ByteAt(idx, c, off) ELSE old

\* a bool member at offset off holding old, after the store
BoolAfter(idx, c, off, old) ==
    IF Hits(idx, off, 1) THEN ByteAt(idx, c, off) # 0 ELSE old

\* the buffer buf with the byte v stored at index k, if it has that index
PutByte(buf, k, v) == IF k \in DOMAIN buf THEN [buf EXCEPT ![k] = v] ELSE buf

\* a buffer at offset off, after the store
BufAfter(idx, c, off, old) ==
    LET first == OffsetOf.pixel_data + 3 * idx - off
    IN  PutByte(PutByte(PutByte(old, first, c[1]), first + 1, c[2]),
                first + 2, c[3])

\* the values a pointer member at offset off holding old can have after
\* the store: some of its bytes overwritten, it points anywhere
PointerAfter(idx, off, old) ==
    IF Hits(idx, off, 4) THEN CorruptEnds ELSE {old}

\* PIOS_WS2811_set.  A negative index passes the assertion and the triple
\* is stored on the members in front of pixel_data[0]: the three bytes
\* right in front are the upper bytes of dev->pixel_data_end.
PIOS_WS2811_set ==
    /\ ~led_halted
    /\ led_pc = "idle"
    /\ \E idx \in SetIndexes, c \in Colors :
          /\ led_hist' = [NoteCall(led_hist, "set", idx) EXCEPT
                            !.oob_write = @ \/ SetEffect(idx) = "before"]
          /\ CASE SetEffect(idx) = "assert" ->
                    /\ led_halted' = TRUE
                    /\ UNCHANGED <<pixel_data, pixel_data_end, pixel_data_pos,
                                   in_progress, eof, cur_buf, gpio_bit,
                                   dma_buf_0, dma_buf_1>>
               [] SetEffect(idx) = "store" ->
                    /\ pixel_data' = StorePixel(pixel_data, idx, c)
                    /\ UNCHANGED <<led_halted, pixel_data_end, pixel_data_pos,
                                   in_progress, eof, cur_buf, gpio_bit,
                                   dma_buf_0, dma_buf_1>>
               [] SetEffect(idx) = "before" ->
                    /\ pixel_data_end' \in
                          PointerAfter(idx, OffsetOf.pixel_data_end,
                                       pixel_data_end)
                    /\ pixel_data_pos' \in
                          PointerAfter(idx, OffsetOf.pixel_data_pos,
                                       pixel_data_pos)
                    /\ in_progress' =
                          BoolAfter(idx, c, OffsetOf.in_progress, in_progress)
                    /\ eof' = BoolAfter(idx, c, OffsetOf.eof, eof)
                    /\ cur_buf' = BoolAfter(idx, c, OffsetOf.cur_buf, cur_buf)
                    /\ gpio_bit' =
                          ByteAfter(idx, c, OffsetOf.gpio_bit, gpio_bit)
                    /\ dma_buf_0' =
                          BufAfter(idx, c, OffsetOf.dma_buf_0, dma_buf_0)
                    /\ dma_buf_1' =
                          BufAfter(idx, c, OffsetOf.dma_buf_1, dma_buf_1)
                    /\ UNCHANGED <<led_halted, pixel_data>>
    /\ UNCHANGED <<barovars, set_range, max_leds, dma, led_pc>>

\* PIOS_WS2811_set_all: set for every index 0 .. max_leds - 1
PIOS_WS2811_set_all ==
    /\ ~led_halted
    /\ led_pc = "idle"
    /\ \E c \in Colors :
          pixel_data' = [k \in 0..(3 * max_leds - 1) |-> c[(k % 3) + 1]]
    /\ led_hist' = NoteCall(led_hist, "set_all", 0)
    /\ UNCHANGED <<barovars, set_range, max_leds, gpio_bit, dma_buf_0, dma_buf_1, cur_buf,
                   eof, in_progress, pixel_data_pos, pixel_data_end,
                   led_halted, dma, led_pc>>

\* the double-buffered stream reaches the end of one buffer and goes on with
\* the other (circular mode); no interrupt handler is attached to it
DmaExchange ==
    /\ dma.enabled
    /\ dma' = [dma EXCEPT !.side = 1 - @]
    /\ UNCHANGED <<barovars, set_range, max_leds, gpio_bit, pixel_data, dma_buf_0,
                   dma_buf_1, cur_buf, eof, in_progress, pixel_data_pos,
                   pixel_data_end, led_halted, led_pc, led_hist>>

LedNext ==
    \/ PIOS_WS2811_trigger_update
    \/ \E n \in {0, 1} : TriggerFill(n)
    \/ TriggerCue
    \/ PIOS_WS2811_set
    \/ PIOS_WS2811_set_all
    \/ DmaExchange

SpecLed == LedInit /\ [][LedNext]_vars

\* The driver on the longest strip, in memory that happened to be clear,
\* with a caller whose indices are far off.
LedFar ==
    /\ LedStarted("far")
    /\ max_leds = MaxLeds
    /\ ~cur_buf /\ ~eof /\ ~in_progress
    /\ pixel_data_pos = 0

SpecLedFar == LedFar /\ [][LedNext]_vars

\* the hardware keeps running: in circular mode the stream goes from one
\* buffer to the other for as long as it is enabled
FairSpecLed ==
    /\ SpecLed
    /\ WF_vars(DmaExchange)

(***************************************************************************)
(* Properties of the barometer driver.                                     *)
(***************************************************************************)
\* p is between its ClaimDevice and the end of its ReleaseDevice
InSequence(p) == pc[p] \in {"start", "sleep", "read", "release"}

\* C1: at most one of the two users (self-test, sampling task) is inside a
\* StartADC -> delay -> ReadADC sequence, and whoever is inside holds the
\* device lock: no StartADC or ReadADC of one user falls between the
\* StartADC and the ReadADC of the other.
C1_OneUserInSequence ==
    /\ \A p \in Procs, q \in Procs : (p # q) => ~(InSequence(p) /\ InSequence(q))
    /\ \A p \in Procs : InSequence(p) => busy = 0

\* C1 witness: the task is about to read its result while the self-test
\* waits for the device lock.
C1_Witness ==
    /\ pc["task"] = "read"
    /\ pc["test"] = "claim"
    /\ busy = 0

\* C2: with interleave 3 the task's conversions are Temp, Pres, Pres, Pres,
\* Temp, Pres, Pres, ...: the first conversion is a temperature conversion
\* and exactly 3 pressure conversions lie between two consecutive
\* temperature conversions.
C2_InterleaveThree ==
    (cfg.temperature_interleaving = 3) =>
        /\ hist.task_first # "P"
        /\ hist.pres_since_temp <= 3
        /\ hist.last_gap \in {-1, 3}

\* C2 witness: the task has started Temp, Pres, Pres, Pres, Temp, Pres, Pres.
C2_Witness ==
    /\ cfg.temperature_interleaving = 3
    /\ hist.task_first = "T"
    /\ hist.last_gap = 3
    /\ hist.pres_since_temp = 2

\* the task passes the bottom of its loop in this step
TaskSendStep == pc["task"] = "send" /\ pc'["task"] = "loop"

\* C6: the task sends a sample to the queue in a pass only if the bus read
\* of that pass's pressure ReadADC succeeded; a pass whose pressure read
\* failed attempts no send and leaves the queue alone.
C6_SendOnlyAfterGoodPressureRead ==
    [][TaskSendStep =>
          /\ (hist'.last_send \in {"queued", "dropped"}) => hist.pres_read_ok
          /\ (~hist.pres_read_ok) => (queue' = queue /\ hist'.last_send = "skipped")
      ]_vars

\* C6 witness: a pass whose pressure read failed has gone by without a send
\* while an earlier sample is still in the queue.
C6_Witness ==
    /\ hist.last_send = "skipped"
    /\ ~hist.pres_read_ok
    /\ queue # <<>>

\* the command byte the data sheet gives for a conversion type
ExpectedCommand(type) ==
    IF type = PRESSURE_CONV THEN 64 + cfg.oversampling ELSE 80 + cfg.oversampling

\* C7: when StartADC has returned, it returned 0, the last byte written to
\* the chip is the command of the requested type (0x40 + osr for pressure,
\* 0x50 + osr for temperature) and current_conversion_type is the requested
\* type; failed writes before that were retried and not reported.
C7_StartReturnsAfterAcceptedCommand ==
    \A p \in Procs :
        (pc[p] = "sleep") =>
            /\ hist.start_rc[p] = 0
            /\ bus_last_cmd = ExpectedCommand(phase[p])
            /\ current_conversion_type = phase[p]

\* C7 witness: StartADC for a pressure conversion has returned after at
\* least one failed write.
C7_Witness ==
    /\ pc["task"] = "sleep"
    /\ phase["task"] = PRESSURE_CONV
    /\ hist.retried["task"]

\* C8: a ReadADC whose bus read fails (claim refused or transfer error)
\* returns an error after one bus transaction and leaves
\* pressure_unscaled, temperature_unscaled, delta_temp, temperature and
\* current_conversion_type as they were.
C8_FailedReadChangesNothing ==
    [][\A p \in Procs :
          (pc[p] = "read" /\ pc'[p] = "release" /\ hist'.adc[p].outcome # "ok") =>
              /\ hist'.adc[p].rc # 0
              /\ hist'.adc[p].xfers = 1
              /\ UNCHANGED <<pressure_unscaled, temperature_unscaled,
                             delta_temp, temperature, current_conversion_type>>
      ]_vars

\* C8 witness: a ReadADC has just failed on a transfer error after earlier
\* reads had stored a temperature and a pressure.
C8_Witness ==
    \E p \in Procs :
        /\ pc[p] = "release"
        /\ hist.adc[p].outcome = "xfer_fail"
        /\ temperature_unscaled # 0
        /\ pressure_unscaled # 0

\* C9: init returns an error, registers no queue and starts no task if the
\* allocation fails, the reset command fails or any of the six calibration
\* reads fails.
C9_InitFailsOnAnyFault ==
    (init_pc = "done" /\ (hist.init_fault # "none" \/ hist.calib_fault)) =>
        /\ init_rc # 0
        /\ ~registered
        /\ ~task_created

\* p has just finished a ReadADC of the given type that returned 0
ReadDone(p, type) ==
    /\ pc[p] = "release"
    /\ phase[p] = type
    /\ hist.adc[p].outcome = "ok"
    /\ hist.adc[p].rc = 0

\* C11: a pressure ReadADC computes offset and sens from the delta_temp and
\* the temperature stored by the latest temperature ReadADC that succeeded,
\* whoever ran it, and from a delta_temp of no other origin: whenever a
\* pressure result has been computed, some temperature read has succeeded
\* before and delta_temp and temperature are the values it stored.
C11_PressureFromLatestTemperature ==
    \A p \in Procs :
        ReadDone(p, PRESSURE_CONV) =>
            /\ hist.temp_src.by # "none"
            /\ delta_temp = hist.temp_src.dt
            /\ temperature = hist.temp_src.temp

\* C12: ReadADC applies the second-order compensation if and only if the
\* temperature it computed is below 2000, in the temperature branch and in
\* the pressure branch, and the compensation for very low temperatures if
\* and only if in addition the compensated temperature of the device is
\* below -1500; at 2000 and at -1500 the respective compensation is left
\* out, at 1999 and at -1501 it is applied.
C12_CompensationThresholds ==
    \A p \in Procs :
        /\ ReadDone(p, TEMPERATURE_CONV) =>
              (hist.adc[p].corr = 1) = (temperature < 2000)
        /\ ReadDone(p, PRESSURE_CONV) =>
              /\ (hist.adc[p].corr >= 1) = (temperature < 2000)
              /\ (hist.adc[p].corr = 2) =
                    (temperature < 2000 /\ temperature_unscaled < -1500)

\* C12 witness: a pressure result was computed at a compensated temperature
\* of exactly -1500: with the second-order compensation, without the one
\* for very low temperatures.
C12_Witness ==
    /\ ReadDone("test", PRESSURE_CONV)
    /\ temperature_unscaled = -1500
    /\ temperature < 2000
    /\ hist.adc["test"].corr = 1

\* the self-test returns in this step
TestReturns == pc["test"] = "check" /\ pc'["test"] = "idle"

\* C13 as stated: the self-test runs a temperature cycle, then a pressure
\* cycle, and returns 0 if and only if the temperature is within
\* -4000..8500 and the pressure within 100..12000.
C13_SelfTestRangesAsStated ==
    [][TestReturns =>
          /\ hist.test_seq = <<TEMPERATURE_CONV, PRESSURE_CONV>>
          /\ (test_rc' = 0) = (/\ temperature_unscaled \in -4000..8500
                               /\ pressure_unscaled \in 100..12000)
      ]_vars

\* C13 amended: the self-test runs a temperature cycle, then a pressure
\* cycle, and returns 0 if and only if the temperature of the device is
\* within -4000..8500 and its pressure within 1000..120000.
C13_SelfTestRanges ==
    [][TestReturns =>
          /\ hist.test_seq = <<TEMPERATURE_CONV, PRESSURE_CONV>>
          /\ (test_rc' = 0) = (/\ temperature_unscaled \in -4000..8500
                               /\ pressure_unscaled \in 1000..120000)
      ]_vars

\* C13 witness: the self-test has returned 0 with the pressure at the upper
\* limit, 120000.
C13_Witness ==
    /\ pc["test"] = "idle"
    /\ test_rc = 0
    /\ temperature_unscaled = 2000
    /\ pressure_unscaled = 120000

\* C16: the queue never holds more than one sample and the send of the task
\* never blocks: at the bottom of its loop the task can always go on, and
\* with the queue full the send leaves the queue as it is, the sample is
\* dropped and the task is back at the top of its loop.
C16_QueueOfOneSendNeverBlocks ==
    /\ [](Len(queue) <= 1)
    /\ []((pc["task"] = "send") => ENABLED TaskSend)
    /\ [][(TaskSendStep /\ read_adc_result = 0 /\ Len(queue) >= 1) =>
            (queue' = queue /\ hist'.last_send = "dropped")]_vars

\* C16 witness: the task has dropped a sample because the queue was full and
\* is at the top of its loop again.
C16_Witness ==
    /\ hist.last_send = "dropped"
    /\ Len(queue) = 1
    /\ pc["task"] = "loop"

\* the interleave value in effect: a configured 0 counts as 1
EffectiveInterleave ==
    IF cfg.temperature_interleaving = 0 THEN 1 ELSE cfg.temperature_interleaving

\* C17: for every configured interleave value the first conversion of the
\* task is a temperature conversion, exactly k pressure conversions lie
\* between two consecutive temperature conversions (k the configured value,
\* 1 for a configured 0), and every pass of the loop runs one pressure
\* conversion, after the temperature conversion of that pass if there is
\* one.
C17_InterleaveAnyValue ==
    /\ hist.task_first # "P"
    /\ hist.pres_since_temp <= EffectiveInterleave
    /\ hist.last_gap \in {-1, EffectiveInterleave}
    /\ hist.iter \in {<<>>, <<TEMPERATURE_CONV>>, <<PRESSURE_CONV>>,
                      <<TEMPERATURE_CONV, PRESSURE_CONV>>}
    /\ (pc["task"] = "send") =>
          hist.iter \in {<<PRESSURE_CONV>>, <<TEMPERATURE_CONV, PRESSURE_CONV>>}

\* C17 witness: with a configured interleave of 0 the task is at the bottom
\* of a pass that ran a temperature and a pressure conversion, one pressure
\* conversion after the temperature conversion before.
C17_Witness ==
    /\ cfg.temperature_interleaving = 0
    /\ hist.last_gap = 1
    /\ pc["task"] = "send"
    /\ hist.iter = <<TEMPERATURE_CONV, PRESSURE_CONV>>

\* C18: the task never ends, whatever reads fail: again and again it is at
\* the bottom of its loop after a pressure conversion and at the top of
\* the next pass.
C18_TaskRunsForever ==
    /\ []<>(pc["task"] = "send" /\ hist.iter # <<>>
               /\ hist.iter[Len(hist.iter)] = PRESSURE_CONV)
    /\ []<>(pc["task"] = "loop")

\* C18 witness: the pressure read of the previous pass failed and the task
\* has started the pressure conversion of the next pass.
C18_Witness ==
    /\ pc["task"] = "sleep"
    /\ phase["task"] = PRESSURE_CONV
    /\ read_adc_result # 0

\* C19: after every Read and WriteCommand, on every path, the driver does
\* not hold the bus, the chip-select is high and the driver has released no
\* bus it did not hold; a call that went through selected the chip and
\* clocked at least the command byte; a call whose bus claim failed returned
\* an error, did not select the chip and clocked no byte.
C19_BusClaimedPerTransaction ==
    /\ ~spi_bus.held
    /\ spi_bus.cs = 1
    /\ ~spi_bus.fault
    /\ (hist.xfer.last \in {"ok", "xfer_fail"}) =>
          (spi_bus.sel /\ hist.xfer.bytes >= 1)
    /\ (hist.xfer.last = "claim_fail") =>
          (hist.xfer.rc # 0 /\ ~spi_bus.sel /\ hist.xfer.bytes = 0)

\* C19 witness: a Read has returned after a transfer error, the command
\* byte clocked out, the bus released and the chip deselected.
C19_Witness ==
    /\ hist.xfer.last = "xfer_fail"
    /\ hist.xfer.bytes = 1
    /\ hist.xfer.rc # 0
    /\ spi_bus.sel
    /\ ~spi_bus.held
    /\ spi_bus.cs = 1

\* C23: every sample the task sends was computed after a temperature
\* ReadADC that succeeded: at a send, delta_temp and the temperature are
\* not the zero-initialised values from before any temperature read
\* succeeded.
C23_PublishedAfterTemperatureRead ==
    [][(TaskSendStep /\ hist'.last_send \in {"queued", "dropped"}) =>
          hist.temp_src.by # "none"
      ]_vars

(***************************************************************************)
(* Properties of the LED driver.                                           *)
(***************************************************************************)
\* this step is a call of the API
LedCall(names) == led_hist'.tick # led_hist.tick /\ led_hist'.call \in names

\* C3: once the pixel source of an update is exhausted, in_progress is
\* eventually cleared, so that a later trigger_update starts a new frame.
C3_InProgressEventuallyCleared ==
    (in_progress /\ dma.enabled /\ pixel_data_pos >= pixel_data_end)
        ~> (~in_progress)

\* C4: trigger_update called while in_progress is set changes neither
\* buffer, nor the cursor, nor in_progress, eof, cur_buf, and does not touch
\* the DMA streams.
C4_TriggerWhileInProgressIsNoOp ==
    [][(in_progress /\ LedCall({"trigger", "trigger_noop"})) =>
          UNCHANGED <<dma_buf_0, dma_buf_1, pixel_data_pos, in_progress, eof,
                      cur_buf, dma>>
      ]_vars

\* C4 witness: trigger_update was called during an update after the pixels
\* had been changed, so that encoding again would give other buffers.
C4_Witness ==
    /\ led_hist.call = "trigger_noop"
    /\ in_progress
    /\ pixel_data_pos > 0
    /\ \E k \in DOMAIN pixel_data : pixel_data[k] # 0
    /\ \A k \in DOMAIN dma_buf_0 : (k % 2 = 0) => dma_buf_0[k] = gpio_bit

FillsDone == IF led_pc \in {"fill1", "cue"} THEN DOMAIN led_hist.fills ELSE {}

\* the buffer a recorded fill wrote
FilledBuf(f) == IF f.buf = 0 THEN dma_buf_0 ELSE dma_buf_1

\* the number of source bytes a recorded fill consumed
Consumed(f) == f.to - f.from

\* the k-th source byte a recorded fill consumed
ConsumedByte(f, k) ==
    IF f.from + k \in DOMAIN pixel_data THEN pixel_data[f.from + k]
    ELSE f.garbage

\* bit j of the byte b, bit 0 being the most significant
BitFromMsb(b, j) == (b \div (2 ^ (7 - j))) % 2

\* the even offsets of the slots of the k-th byte of a fill hold the
\* early-fall value at the bit positions in low and 0 at those in high
SlotPattern(f, k, low, high) ==
    /\ \A j \in low  : FilledBuf(f)[16 * k + 2 * j] = gpio_bit
    /\ \A j \in high : FilledBuf(f)[16 * k + 2 * j] = 0

\* C14 as stated: the pixel byte 0b10110000 is encoded with the early-fall
\* marker at the bit positions 1, 3 and 4 (from the MSB) and no marker at
\* the positions 0, 2, 5, 6 and 7.
C14_MarkersAsStated ==
    \A n \in FillsDone :
        \A k \in 0..(Consumed(led_hist.fills[n]) - 1) :
            ConsumedByte(led_hist.fills[n], k) = 176 =>
                SlotPattern(led_hist.fills[n], k, {1, 3, 4}, {0, 2, 5, 6, 7})

\* C14: the pixel byte 0b10110000 is encoded with the early-fall marker at
\* the even offsets of the bit positions 1, 4, 5, 6 and 7 (from the MSB),
\* its zero bits, and no marker at the positions 0, 2 and 3.
C14_MarkersOfB0 ==
    \A n \in FillsDone :
        \A k \in 0..(Consumed(led_hist.fills[n]) - 1) :
            ConsumedByte(led_hist.fills[n], k) = 176 =>
                SlotPattern(led_hist.fills[n], k, {1, 4, 5, 6, 7}, {0, 2, 3})

\* C14 witness: both buffers are encoded and the byte 0b10110000 was the
\* first byte encoded into the second one.
C14_Witness ==
    /\ led_pc = "cue"
    /\ Len(led_hist.fills) = 2
    /\ Consumed(led_hist.fills[2]) > 0
    /\ led_hist.fills[2].from \in DOMAIN pixel_data
    /\ ConsumedByte(led_hist.fills[2], 0) = 176
    /\ gpio_bit # 0

\* the smaller of two numbers
Least(a, b) == IF a < b THEN a ELSE b

\* the cursor after a fill that started at from: one buffer holds the
\* slots of WS2811_DMA_BUFSIZE / 16 bytes
CursorAfterFill(from) ==
    IF from >= pixel_data_end THEN from
    ELSE Least(from + WS2811_DMA_BUFSIZE \div 16, pixel_data_end)

\* C15: a trigger_update that finds no update in progress sets the cursor
\* to the first pixel and sets in_progress without touching the DMA
\* streams; the streams are programmed and started only after buffer 0 was
\* encoded from the first pixel and then buffer 1 from where that fill
\* left the cursor, and the start changes neither buffer nor the cursor.
C15_FillsBeforeHardwareStart ==
    [][/\ (~in_progress /\ LedCall({"trigger", "trigger_noop"})) =>
             /\ in_progress'
             /\ pixel_data_pos' = 0
             /\ led_hist'.fills = <<>>
             /\ UNCHANGED dma
       /\ (dma' # dma /\ (dma'.cues # dma.cues \/ dma'.enabled # dma.enabled)) =>
             /\ in_progress
             /\ Len(led_hist.fills) = 2
             /\ led_hist.fills[1].buf = 0
             /\ led_hist.fills[1].from = 0
             /\ led_hist.fills[1].to = CursorAfterFill(0)
             /\ led_hist.fills[2].buf = 1
             /\ led_hist.fills[2].from = led_hist.fills[1].to
             /\ led_hist.fills[2].to = CursorAfterFill(led_hist.fills[1].to)
             /\ pixel_data_pos = led_hist.fills[2].to
             /\ UNCHANGED <<dma_buf_0, dma_buf_1, pixel_data_pos, in_progress>>
      ]_vars

\* C15 witness: the streams were started by an update of a strip of seven
\* pixels: buffer 0 took the bytes 0 .. 17 and buffer 1 the bytes 18 .. 20.
C15_Witness ==
    /\ led_pc = "idle"
    /\ dma.enabled
    /\ dma.cues = 1
    /\ led_hist.call = "trigger"
    /\ max_leds = 7
    /\ Len(led_hist.fills) = 2
    /\ led_hist.fills[2].from = 18
    /\ led_hist.fills[2].to = 21

\* C20: fill_dma_buf encodes the k-th byte it consumes into the slots
\* 16k .. 16k+15 of the buffer, most significant bit first: for bit j the
\* even offset 16k + 2j holds the GPIO value when the bit is 0 and 0 when
\* the bit is 1.
C20_SlotsEncodeBytesMsbFirst ==
    \A n \in FillsDone :
        \A k \in 0..(Consumed(led_hist.fills[n]) - 1), j \in 0..7 :
            FilledBuf(led_hist.fills[n])[16 * k + 2 * j] =
                IF BitFromMsb(ConsumedByte(led_hist.fills[n], k), j) = 0
                THEN gpio_bit ELSE 0

\* C20 witness: the second buffer was encoded from byte 18 on and took
\* bytes with bits of both values.
C20_Witness ==
    /\ led_pc = "cue"
    /\ Len(led_hist.fills) = 2
    /\ led_hist.fills[2].from = 18
    /\ Consumed(led_hist.fills[2]) >= 3
    /\ ConsumedByte(led_hist.fills[2], 0) = 176
    /\ ConsumedByte(led_hist.fills[2], 2) = 1
    /\ dma_buf_1[0] = 0
    /\ dma_buf_1[2] = gpio_bit

\* C10: set with index = max_leds fails the assertion and writes nothing:
\* no pixel, no buffer, no field of the device and nothing outside the
\* pixel store changes.
C10_SetAtMaxLedsAsserts ==
    [][(LedCall({"set"}) /\ led_hist'.idx = max_leds) =>
          /\ led_halted'
          /\ led_hist'.oob_write = led_hist.oob_write
          /\ UNCHANGED <<pixel_data, dma_buf_0, dma_buf_1, pixel_data_pos,
                         pixel_data_end, in_progress, eof, cur_buf, dma>>
      ]_vars

\* C10 witness: set was called with index = max_leds and the firmware
\* stopped on the assertion.
C10_Witness ==
    /\ led_hist.call = "set"
    /\ led_hist.idx = max_leds
    /\ led_halted

\* C21: every odd offset of both encoding buffers holds the GPIO bit value
\* after init and after any sequence of set, set_all, trigger_update and
\* fills.
C21_OddOffsetsHoldGpioBit ==
    \A k \in DOMAIN dma_buf_0 :
        (k % 2 = 1) => (dma_buf_0[k] = gpio_bit /\ dma_buf_1[k] = gpio_bit)

\* this step is a fill of a buffer by trigger_update
FillStep == Len(led_hist'.fills) = Len(led_hist.fills) + 1

\* the number of bytes of the pixel store from the cursor on
Remaining == IF pixel_data_pos >= 3 * max_leds THEN 0
             ELSE 3 * max_leds - pixel_data_pos

\* C22: a fill consumes min(18, remaining) bytes of the pixel store in
\* order from the cursor, moves the cursor on by that number and never
\* beyond the end of the pixel store, leaves the slots of the positions it
\* did not consume as they were, and returns true if and only if the
\* cursor is then at the end of the pixel store.
C22_FillConsumesUpToEnd ==
    [][FillStep =>
          LET f      == led_hist'.fills[Len(led_hist'.fills)]
              before == IF f.buf = 0 THEN dma_buf_0 ELSE dma_buf_1
              after  == IF f.buf = 0 THEN dma_buf_0' ELSE dma_buf_1'
              n      == Least(WS2811_DMA_BUFSIZE \div 16, Remaining)
          IN  /\ f.from = pixel_data_pos
              /\ pixel_data_pos' = pixel_data_pos + n
              /\ pixel_data_pos' <= 3 * max_leds
              /\ \A k \in 0..(n - 1), j \in 0..7 :
                    after[16 * k + 2 * j] =
                        IF BitFromMsb(pixel_data[pixel_data_pos + k], j) = 0
                        THEN gpio_bit ELSE 0
              /\ \A k \in DOMAIN before :
                    (k >= 16 * n) => after[k] = before[k]
              /\ f.ret = (pixel_data_pos' >= 3 * max_leds)
      ]_vars

\* C24: for every index, set either stores exactly pixel_data[index], with
\* 0 <= index < max_leds, or stops on the assertion; it changes no other
\* pixel, nothing outside the pixel store, neither encoding buffer, not the
\* cursor, not in_progress, and does not touch the DMA streams.
C24_SetWritesOnePixelOrAborts ==
    [][LedCall({"set"}) =>
          /\ \/ led_halted' /\ UNCHANGED pixel_data
             \/ /\ ~led_halted'
                /\ led_hist'.idx \in 0..(max_leds - 1)
                /\ \A k \in DOMAIN pixel_data :
                      k \notin (3 * led_hist'.idx)..(3 * led_hist'.idx + 2)
                          => pixel_data'[k] = pixel_data[k]
          /\ led_hist'.oob_write = led_hist.oob_write
          /\ UNCHANGED <<dma_buf_0, dma_buf_1, pixel_data_pos, pixel_data_end,
                         in_progress, eof, cur_buf, gpio_bit, dma>>
      ]_vars

====
